---- MODULE Spec2Model ----
(***************************************************************************)
(* Wpixel (PlanetCanvas 3D): the stamp route POST/GET /api/stamp with its  *)
(* isProcessing lock and textureVersion counter, the coordinate / tile     *)
(* utilities of lib/utils/coordinates.ts, the TileCache of                 *)
(* lib/utils/realtime.ts, the stamp route's rate limiter and the enhance   *)
(* route POST /api/enhance.  Each part has its own specification (Spec,    *)
(* SpecTiles, SpecFn, SpecCache, SpecLimit, SpecEnhance) over the same     *)
(* variables; the parts a specification does not exercise stay as loaded.  *)
(*                                                                         *)
(* Numbers.  Angles are exact rationals [n, d] in lowest terms with d > 0. *)
(* The source computes in IEEE doubles; for the inputs enumerated here     *)
(* every quantity that is floored is either exactly representable or lies  *)
(* farther from an integer than the rounding error, so the floors agree.   *)
(* Centre latitudes are those whose cosine is rational (0 and +-60).       *)
(*                                                                         *)
(* Scheduling.  A handler's steps are the actions below.  The loop test of *)
(* line 271 and the assignment of line 275 are one action: no await lies   *)
(* between them.  The locked section (lines 277-325) is split at its       *)
(* statements and other requests may be scheduled between those steps.     *)
(* This is a superset of the interleavings of the single-threaded runtime  *)
(* (as written the section holds no await), so every safety property       *)
(* established here holds of the code as it runs.                          *)
(*                                                                         *)
(* Time.  Date.now() is the variable now, in ticks; an hour is HourTicks   *)
(* and a day DayTicks of them.  Any number of requests may arrive within   *)
(* one tick, as any number may within one millisecond.                     *)
(***************************************************************************)
EXTENDS Integers, Sequences, FiniteSets, TLC

VARIABLES
    textureVersion,   \* part_002:238  let textureVersion
    isProcessing,     \* part_002:241  let isProcessing
    stamps,           \* part_002:237  Map in insertion order: a sequence of records
    nextId,           \* source of fresh stampIds (Date.now() + Math.random(), line 283)
    pc,               \* each request's position in POST
    body,             \* each request's parsed JSON body
    local,            \* each request's locals: bounds, affectedTiles, stampId
    resp,             \* each request's response
    waited,           \* how many times a request has slept in its wait loop so far
    effect,           \* textureVersion and store size leaving the locked section minus entering it
    lastGet,          \* the last response of GET /api/stamp
    tileIn,           \* input of a direct call of getAffectedTiles
    tileOut,          \* its result
    tilePhase,        \* "in" before the call, "out" after it
    cache,            \* realtime.ts:280  TileCache.cache: key -> data, NoData when absent
    accessOrder,      \* realtime.ts:282  TileCache.accessOrder
    lru,              \* the cached keys by their last access (set or get hit), oldest first
    cacheHist,        \* what has happened to the cache since it was last empty
    fnIn,             \* the arguments of a direct call of a coordinate function
    fnOut,            \* its result
    fnPhase,          \* "in" before the call, "out" after it, "off" when unused
    now,              \* Date.now(), in ticks
    stampRateLimit,   \* part_002:14  the stamp route's rate-limit map
    stampLog,         \* per user, the stamps allowed in each tick of the last hour
    enhanceRateLimit, \* part_003:15  the enhance route's rate-limit map
    ePc,              \* where each enhance request stands
    eLocal,           \* each enhance request's user, response and the quota it took
    eQuota,           \* the last response of GET /api/enhance
    dbResp,           \* the last response of the Supabase-backed POST /api/stamp
    ws,               \* realtime.ts:23  RealtimeManager.ws: a socket's number, 0 for null
    reconnectAttempts, \* realtime.ts:24
    isConnected,      \* realtime.ts:27
    connectionFailed, \* realtime.ts:28
    sockets,          \* the WebSockets created so far, each "connecting", "open" or "closed"
    timers,           \* the reconnect timers set and not yet fired
    rtHist            \* what the manager has done: sockets opened, reconnects scheduled, ...

vars == <<textureVersion, isProcessing, stamps, nextId, pc, body, local, resp,
          waited, effect, lastGet, tileIn, tileOut, tilePhase,
          cache, accessOrder, lru, cacheHist, fnIn, fnOut, fnPhase,
          now, stampRateLimit, stampLog, enhanceRateLimit, ePc, eLocal, eQuota,
          dbResp, ws, reconnectAttempts, isConnected, connectionFailed,
          sockets, timers, rtHist>>

routeVars == <<textureVersion, isProcessing, stamps, nextId, pc, body, local,
               resp, waited, effect, lastGet>>

tileVars == <<tileIn, tileOut, tilePhase>>

cacheVars == <<cache, accessOrder, lru, cacheHist>>

fnVars == <<fnIn, fnOut, fnPhase>>

limitVars == <<now, stampRateLimit, stampLog>>

enhanceVars == <<enhanceRateLimit, ePc, eLocal, eQuota>>

dbVars == <<dbResp>>

rtVars == <<ws, reconnectAttempts, isConnected, connectionFailed, sockets,
            timers, rtHist>>

restVars == <<dbVars, rtVars>>

\* The state of everything but the stamp route and the direct tile calls.
extVars == <<cacheVars, fnVars, limitVars, enhanceVars, restVars>>

(***************************************************************************)
(* Bounds of the model.                                                    *)
(***************************************************************************)
NReq == 2          \* concurrent POST requests
MaxPolls == 2      \* sleeps of one wait loop that are counted
MaxLongK == 20     \* direct getAffectedTiles calls: longitudes 10*k, |k| <= MaxLongK
CacheCapacity == 2 \* TileCache maxSize (the constructor's argument)
NKeys == 3         \* distinct tile keys offered to the TileCache
MaxOrder == 4      \* longest accessOrder that is followed
MaxAngleK == 40    \* normalizeAngle is called on the angles 45*k/2, |k| <= MaxAngleK
GridDen == 7       \* direct calls: lat = 90*k/GridDen, long = 180*k/GridDen, u, v = k/GridDen
HourTicks == 2     \* part_002:20  hourInMs, in ticks of the model's clock
DayTicks == 2      \* part_003:29  dayInMs, in ticks of the model's clock
MaxNow == 4        \* the clock stops here
MaxStamps == 102   \* stamps committed one after another (the store holds 100)
MaxSockets == 5    \* WebSockets a RealtimeManager creates
NEnhanceReq == 2   \* concurrent POST /api/enhance requests

Reqs == 1..NReq

(***************************************************************************)
(* Program constants.                                                      *)
(***************************************************************************)
TilesX == 8
TilesY == 4
BaseDegrees == 30
DefaultZoom == 5
InitialVersion == 1
MaxStoredStamps == 100
FeedSize == 50
maxStampsPerHour == 10
TileWidth == 2048
maxReconnectAttempts == 3
TileHeight == 2048
maxEnhancementsPerDay == 3

(***************************************************************************)
(* Exact rational arithmetic.                                              *)
(***************************************************************************)
Abs(a) == IF a < 0 THEN -a ELSE a

RECURSIVE GCD(_, _)
GCD(a, b) == IF b = 0 THEN a ELSE GCD(b, a % b)

Rat(n, d) ==
    LET g == GCD(Abs(n), Abs(d))
        s == IF d < 0 THEN -1 ELSE 1
    IN  [n |-> (s * n) \div g, d |-> (s * d) \div g]

RInt(k) == [n |-> k, d |-> 1]
RAdd(a, b) == Rat(a.n * b.d + b.n * a.d, a.d * b.d)
RSub(a, b) == Rat(a.n * b.d - b.n * a.d, a.d * b.d)
RMul(a, b) == Rat(a.n * b.n, a.d * b.d)
RDiv(a, b) == Rat(a.n * b.d, a.d * b.n)
RLt(a, b) == a.n * b.d < b.n * a.d
RLe(a, b) == ~RLt(b, a)
RMax(a, b) == IF RLt(a, b) THEN b ELSE a
RMin(a, b) == IF RLt(b, a) THEN b ELSE a
RFloor(a) == a.n \div a.d

\* Math.trunc, and x % 1 (JavaScript's % keeps the sign of the dividend).
RTrunc(a) == IF a.n >= 0 THEN a.n \div a.d ELSE -((-a.n) \div a.d)
RRem1(a) == RSub(a, RInt(RTrunc(a)))

\* JavaScript's % keeps the sign of the dividend.
JsRem(a, b) == IF a >= 0 THEN a % b ELSE -((-a) % b)

(***************************************************************************)
(* lib/utils/coordinates.ts                                                *)
(***************************************************************************)
latLongToUV_Flipped(lat, long) ==
    [u |-> RDiv(RAdd(long, RInt(180)), RInt(360)),
     v |-> RDiv(RAdd(RInt(90), lat), RInt(180))]

\* lines 33-42
latLongToUV(lat, long) ==
    [u |-> RDiv(RAdd(long, RInt(180)), RInt(360)),
     v |-> RDiv(RSub(RInt(90), lat), RInt(180))]

RECURSIVE NormDown(_)
NormDown(angle) ==
    IF RLt(RInt(180), angle) THEN NormDown(RSub(angle, RInt(360))) ELSE angle

RECURSIVE NormUp(_)
NormUp(angle) ==
    IF RLt(angle, RInt(-180)) THEN NormUp(RAdd(angle, RInt(360))) ELSE angle

normalizeAngle_Once(angle) ==
    IF RLt(RInt(180), angle) THEN RSub(angle, RInt(360))
    ELSE IF RLt(angle, RInt(-180)) THEN RAdd(angle, RInt(360)) ELSE angle

\* lines 139-143: the two while loops, one after the other.
normalizeAngle(angle) == NormUp(NormDown(angle))

uvToLatLong_NoOffset(u, v) ==
    [lat |-> RSub(RInt(90), RMul(v, RInt(180))), long |-> RMul(u, RInt(360))]

\* lines 151-155
uvToLatLong(u, v) ==
    [lat |-> RSub(RInt(90), RMul(v, RInt(180))),
     long |-> RSub(RMul(u, RInt(360)), RInt(180))]

\* Math.cos((lat * Math.PI) / 180) at the latitudes where it is rational
\* (the double for 60 degrees is 0.5 + 2^-53; no floor below is affected).
CosDeg(lat) ==
    CASE lat = 0 -> RInt(1)
      [] lat \in {-60, 60} -> Rat(1, 2)

calculateDrawingBounds(lat, long, zoomLevel) ==
    LET degreesSpan == Rat(BaseDegrees, zoomLevel)
        latSpan == degreesSpan
        longSpan == RDiv(degreesSpan, CosDeg(lat))
        halfLat == RDiv(latSpan, RInt(2))
        halfLong == RDiv(longSpan, RInt(2))
    IN  [latMin |-> RMax(RInt(-90), RSub(RInt(lat), halfLat)),
         latMax |-> RMin(RInt(90), RAdd(RInt(lat), halfLat)),
         longMin |-> normalizeAngle(RSub(RInt(long), halfLong)),
         longMax |-> normalizeAngle(RAdd(RInt(long), halfLong))]

(***************************************************************************)
(* latLongToXYZ and xyzToLatLong at the multiples of 45 degrees.           *)
(*                                                                         *)
(* A coordinate is sgn * scale * h^half * e^eps, where h = sin(45 deg) and *)
(* e stands for the tiny positive values the double arithmetic gives where *)
(* the real function is zero: (90 * Math.PI) / 180 is just below pi/2, so  *)
(* Math.cos of it is about 6.1e-17 and not 0, and Math.sin(Math.PI) is     *)
(* about 1.2e-16.  Products add the exponents.  Equalities of results are  *)
(* therefore equalities up to the rounding of doubles.                     *)
(***************************************************************************)
SZero == [sgn |-> 0, scale |-> RInt(1), half |-> 0, eps |-> 0]
SUnit(sgn, half, eps) == [sgn |-> sgn, scale |-> RInt(1), half |-> half, eps |-> eps]

SMul(a, b) ==
    IF a.sgn = 0 \/ b.sgn = 0 THEN SZero
    ELSE [sgn |-> a.sgn * b.sgn, scale |-> RMul(a.scale, b.scale),
          half |-> a.half + b.half, eps |-> a.eps + b.eps]

\* radius * a and a / radius, for a radius > 0
SScale(radius, a) == IF a.sgn = 0 THEN SZero ELSE [a EXCEPT !.scale = RMul(radius, @)]
SDiv(a, radius) == IF a.sgn = 0 THEN SZero ELSE [a EXCEPT !.scale = RDiv(@, radius)]

Sign(k) == IF k < 0 THEN -1 ELSE IF k > 0 THEN 1 ELSE 0

\* Math.sin((deg * Math.PI) / 180)
MathSin(deg) ==
    CASE deg = 0 -> SZero
      [] Abs(deg) \in {45, 135} -> SUnit(Sign(deg), 1, 0)
      [] Abs(deg) = 90 -> SUnit(Sign(deg), 0, 0)
      [] Abs(deg) = 180 -> SUnit(Sign(deg), 0, 1)
      [] deg \in {225, 315} -> SUnit(-1, 1, 0)
      [] deg = 270 -> SUnit(-1, 0, 0)
      [] deg = 360 -> SUnit(-1, 0, 1)

\* Math.cos((deg * Math.PI) / 180)
MathCos(deg) ==
    CASE deg = 0 -> SUnit(1, 0, 0)
      [] Abs(deg) = 45 -> SUnit(1, 1, 0)
      [] Abs(deg) = 90 -> SUnit(1, 0, 1)
      [] Abs(deg) = 135 -> SUnit(-1, 1, 0)
      [] Abs(deg) = 180 -> SUnit(-1, 0, 0)
      [] deg = 225 -> SUnit(-1, 1, 0)
      [] deg = 270 -> SUnit(-1, 0, 1)
      [] deg = 315 -> SUnit(1, 1, 0)
      [] deg = 360 -> SUnit(1, 0, 0)

\* Math.max(-1, Math.min(1, a))
Clamp(a) ==
    IF a.sgn # 0 /\ a.half = 0 /\ a.eps = 0 /\ RLt(RInt(1), a.scale)
    THEN [a EXCEPT !.scale = RInt(1)]
    ELSE a

\* Math.asin(a) * (180 / Math.PI)
MathAsin(a) ==
    CASE a.sgn = 0 -> 0
      [] a.sgn # 0 /\ a.eps > 0 -> 0
      [] a.sgn # 0 /\ a.scale = RInt(1) /\ a.eps = 0 /\ a.half = 0 -> 90 * a.sgn
      [] a.sgn # 0 /\ a.scale = RInt(1) /\ a.eps = 0 /\ a.half = 1 -> 45 * a.sgn

\* Math.atan2(y, x) * (180 / Math.PI): the quadrant from the signs, the angle
\* in it from which of the two is negligible beside the other.
MathAtan2(y, x) ==
    CASE y.sgn = 0 -> (IF x.sgn < 0 THEN 180 ELSE 0)
      [] y.sgn # 0 /\ x.sgn = 0 -> 90 * y.sgn
      [] y.sgn # 0 /\ x.sgn # 0 /\ y.eps > x.eps ->
            (IF x.sgn < 0 THEN 180 * y.sgn ELSE 0)
      [] y.sgn # 0 /\ x.sgn # 0 /\ y.eps < x.eps -> 90 * y.sgn
      [] y.sgn # 0 /\ x.sgn # 0 /\ y.eps = x.eps
            /\ y.half = x.half /\ y.scale = x.scale ->
            (IF x.sgn < 0 THEN 135 * y.sgn ELSE 45 * y.sgn)

\* lines 13-25
latLongToXYZ(lat, long, radius) ==
    [x |-> SScale(radius, SMul(MathCos(lat), MathSin(long))),
     y |-> SScale(radius, MathSin(lat)),
     z |-> SScale(radius, SMul(MathCos(lat), MathCos(long)))]

xyzToLatLong_Swapped(x, y, z, radius) ==
    [lat |-> MathAsin(Clamp(SDiv(y, radius))),
     long |-> MathAtan2(SDiv(z, radius), SDiv(x, radius))]

\* lines 52-65
xyzToLatLong(x, y, z, radius) ==
    LET nx == SDiv(x, radius)
        ny == SDiv(y, radius)
        nz == SDiv(z, radius)
    IN  [lat |-> MathAsin(Clamp(ny)), long |-> MathAtan2(nx, nz)]

SNeg(a) == [a EXCEPT !.sgn = -@]

\* A rational as a symbolic value, and a / b for b # 0.
SOfRat(q) ==
    IF q.n = 0 THEN SZero
    ELSE [sgn |-> Sign(q.n), scale |-> Rat(Abs(q.n), q.d), half |-> 0, eps |-> 0]

SQuot(a, b) ==
    IF a.sgn = 0 THEN SZero
    ELSE [sgn |-> a.sgn * b.sgn, scale |-> RDiv(a.scale, b.scale),
          half |-> a.half - b.half, eps |-> a.eps - b.eps]

\* lines 81-86 of calculateDrawingBounds: the divisor Math.cos((lat *
\* Math.PI) / 180) and longSpan = degreesSpan / divisor.  eps < 0 marks a
\* span of the order of 1e17 degrees, which normalizeAngle (lines 140-141)
\* brings back 360 degrees a turn.
longSpanOf(lat, zoomLevel) ==
    LET degreesSpan == SOfRat(Rat(BaseDegrees, zoomLevel))
        divisor == MathCos(lat)
    IN  [divisor |-> divisor, longSpan |-> SQuot(degreesSpan, divisor)]

\* lines 302-315 (globe utilities): phi = 90 - lat, theta = long + 180.
latLongToCartesian(lat, long, radius) ==
    LET phi == 90 - lat
        theta == long + 180
    IN  [x |-> SNeg(SScale(radius, SMul(MathSin(phi), MathCos(theta)))),
         z |-> SScale(radius, SMul(MathSin(phi), MathSin(theta))),
         y |-> SScale(radius, MathCos(phi))]

\* lines 275-293 (globe utilities)
cartesianToLatLong(x, y, z, radius) ==
    LET nx == SDiv(x, radius)
        ny == SDiv(y, radius)
        nz == SDiv(z, radius)
    IN  [lat |-> MathAsin(ny), long |-> MathAtan2(nx, nz)]

\* lines 204-224
uvToTilePixel(u, v, tileWidth, tileHeight, tilesX, tilesY) ==
    LET localU == RRem1(RMul(u, RInt(tilesX)))
        localV == RRem1(RMul(v, RInt(tilesY)))
    IN  [tileX |-> RFloor(RMul(u, RInt(tilesX))),
         tileY |-> RFloor(RMul(v, RInt(tilesY))),
         pixelX |-> RFloor(RMul(localU, RInt(tileWidth))),
         pixelY |-> RFloor(RMul(localV, RInt(tileHeight)))]

NormalizeX_NoWrap(x, tilesX) == JsRem(x, tilesX)

\* line 185: ((x % tilesX) + tilesX) % tilesX
NormalizeX(x, tilesX) == JsRem(JsRem(x, tilesX) + tilesX, tilesX)

\* line 186: Math.max(0, Math.min(tilesY - 1, y))
NormalizeY(y, tilesY) ==
    LET m == IF y < tilesY - 1 THEN y ELSE tilesY - 1
    IN  IF m < 0 THEN 0 ELSE m

\* The tiles in the order the nested loops push them (x outer, y inner).
getAffectedTiles(bounds, tilesX, tilesY) ==
    LET uvMin == latLongToUV(bounds.latMax, bounds.longMin)
        uvMax == latLongToUV(bounds.latMin, bounds.longMax)
        tileXMin == RFloor(RMul(uvMin.u, RInt(tilesX)))
        tileXMax == RFloor(RMul(uvMax.u, RInt(tilesX)))
        tileYMin == RFloor(RMul(uvMin.v, RInt(tilesY)))
        tileYMax == RFloor(RMul(uvMax.v, RInt(tilesY)))
        nx == IF tileXMax >= tileXMin THEN tileXMax - tileXMin + 1 ELSE 0
        ny == IF tileYMax >= tileYMin THEN tileYMax - tileYMin + 1 ELSE 0
    IN  [i \in 1..(nx * ny) |->
            [x |-> NormalizeX(tileXMin + ((i - 1) \div ny), tilesX),
             y |-> NormalizeY(tileYMin + ((i - 1) % ny), tilesY)]]

(***************************************************************************)
(* JSON values of a request body: tagged, a string by its length.          *)
(***************************************************************************)
Undef == [kind |-> "undefined", val |-> 0]
Null == [kind |-> "null", val |-> 0]
Num(k) == [kind |-> "number", val |-> k]
Str(len) == [kind |-> "string", val |-> len]

\* !v is false: a non-zero number or a non-empty string.
Truthy(v) == v.kind \in {"number", "string"} /\ v.val # 0

\* The number a relational or arithmetic operator sees: null is 0.
ToNumber(v) == IF v.kind = "number" THEN v.val ELSE 0

NominalBody == [image |-> Str(5), lat |-> Num(0), long |-> Num(0), zoom |-> Undef]

Images == {Undef, Str(0), Str(5), Num(7)}
Lats == {Undef, Null, Num(-91), Num(0), Num(60), Num(91)}
Longs == {Undef, Num(-181), Num(-180), Num(0), Num(179), Num(181)}
Zooms == {Undef, Num(0), Num(1), Num(10)}

\* The bodies a request may carry: the nominal one, every body that departs
\* from it in one field, and some that depart in several.
Bodies ==
    {[NominalBody EXCEPT !.image = v] : v \in Images}
    \cup {[NominalBody EXCEPT !.lat = v] : v \in Lats}
    \cup {[NominalBody EXCEPT !.long = v] : v \in Longs}
    \cup {[NominalBody EXCEPT !.zoom = v] : v \in Zooms}
    \cup {[image |-> Str(5), lat |-> Num(60), long |-> Num(179), zoom |-> Num(1)],
          [image |-> Str(5), lat |-> Num(91), long |-> Num(181), zoom |-> Undef],
          [image |-> Undef, lat |-> Num(-91), long |-> Num(0), zoom |-> Undef],
          [image |-> Str(5), lat |-> Num(91), long |-> Undef, zoom |-> Undef],
          [image |-> Num(7), lat |-> Null, long |-> Num(0), zoom |-> Undef]}

(***************************************************************************)
(* POST /api/stamp, in-memory route (part_002:243-333)                     *)
(***************************************************************************)
NoResp == [status |-> 0, success |-> FALSE, error |-> "", stampId |-> 0,
           textureVersion |-> 0]

ZeroBounds == [latMin |-> RInt(0), latMax |-> RInt(0),
               longMin |-> RInt(0), longMax |-> RInt(0)]

NoEffect == [version |-> 0, records |-> 0]

NoLocal == [bounds |-> ZeroBounds, tiles |-> <<>>, stampId |-> 0,
            thrown |-> FALSE, response |-> NoResp, entryVersion |-> 0,
            entryCount |-> 0]

Rejection(msg) == [status |-> 400, success |-> FALSE, error |-> msg,
                   stampId |-> 0, textureVersion |-> 0]

ServerError == [status |-> 500, success |-> FALSE,
                error |-> "Internal server error", stampId |-> 0,
                textureVersion |-> 0]

LatOutOfRange_Loose(lat) == ToNumber(lat) < -90 \/ ToNumber(lat) > 91

\* line 256
LatOutOfRange(lat) == ToNumber(lat) < -90 \/ ToNumber(lat) > 90

\* line 263
LongOutOfRange(long) == ToNumber(long) < -180 \/ ToNumber(long) > 180

\* lines 248-268: the error of the first failing test, "" when all pass.
ValidationError(b) ==
    IF ~Truthy(b.image) \/ b.lat = Undef \/ b.long = Undef
    THEN "Missing required fields"
    ELSE IF LatOutOfRange(b.lat) THEN "Invalid latitude"
    ELSE IF LongOutOfRange(b.long) THEN "Invalid longitude"
    ELSE ""

\* zoom || 5
ZoomOf(b) == IF Truthy(b.zoom) THEN b.zoom.val ELSE DefaultZoom

LockFree_Always == TRUE

\* line 271: the wait loop is left when isProcessing is false.
LockFree == ~isProcessing

BumpVersion_Twice(v) == v + 2

\* line 286: textureVersion++
BumpVersion(v) == v + 1

InSection == {"locked", "bumped", "stored", "finally"}

\* lines 271-275: leave the loop and take the lock, or sleep 100 ms.
AcquireOrSleep(r) ==
    IF LockFree
    THEN /\ isProcessing' = TRUE
         /\ pc' = [pc EXCEPT ![r] = "locked"]
         /\ local' = [local EXCEPT ![r].entryVersion = textureVersion,
                                   ![r].entryCount = Len(stamps)]
         /\ waited' = [waited EXCEPT ![r] = 0]
    ELSE /\ waited[r] < MaxPolls
         /\ waited' = [waited EXCEPT ![r] = @ + 1]
         /\ pc' = [pc EXCEPT ![r] = "sleep"]
         /\ UNCHANGED <<isProcessing, local>>

\* lines 245-275: await request.json() resolves with body b; validation and,
\* when it passes, the first test of the wait loop follow without an await.
Receive(r, b) ==
    /\ pc[r] = "idle"
    /\ LET e == ValidationError(b)
       IN  IF e # ""
           THEN /\ resp' = [resp EXCEPT ![r] = Rejection(e)]
                /\ pc' = [pc EXCEPT ![r] = "done"]
                /\ UNCHANGED <<isProcessing, waited, body, local>>
           ELSE /\ body' = [body EXCEPT ![r] = b]
                /\ AcquireOrSleep(r)
                /\ UNCHANGED resp
    /\ UNCHANGED <<textureVersion, stamps, nextId, effect, lastGet, tileVars, extVars>>

\* lines 271-275: the timer of line 272 fires and the loop tests again.
Wake(r) ==
    /\ pc[r] = "sleep"
    /\ AcquireOrSleep(r)
    /\ UNCHANGED <<textureVersion, stamps, nextId, body, resp, effect, lastGet,
                   tileVars, extVars>>

\* lines 279-286: bounds, affected tiles, stampId, textureVersion++.
Prepare(r) ==
    /\ pc[r] = "locked"
    /\ LET b == body[r]
           bounds == calculateDrawingBounds(ToNumber(b.lat), ToNumber(b.long),
                                            ZoomOf(b))
       IN  local' = [local EXCEPT ![r] =
                        [bounds |-> bounds,
                         tiles |-> getAffectedTiles(bounds, TilesX, TilesY),
                         stampId |-> nextId,
                         thrown |-> FALSE,
                         response |-> NoResp,
                         entryVersion |-> local[r].entryVersion,
                         entryCount |-> local[r].entryCount]]
    /\ nextId' = nextId + 1
    /\ textureVersion' = BumpVersion(textureVersion)
    /\ pc' = [pc EXCEPT ![r] = "bumped"]
    /\ UNCHANGED <<isProcessing, stamps, body, resp, waited, effect, lastGet,
                   tileVars, extVars>>

\* lines 291-303: the record; textureVersion is read when it is built.
StampData(r) ==
    [id |-> local[r].stampId,
     lat |-> body[r].lat,
     long |-> body[r].long,
     zoom |-> ZoomOf(body[r]),
     textureVersion |-> textureVersion,
     tilesAffected |-> local[r].tiles,
     uvPosition |-> latLongToUV(RInt(ToNumber(body[r].lat)),
                                RInt(ToNumber(body[r].long))),
     bounds |-> local[r].bounds]

StoreStamp_KeepAll(store, rec) == Append(store, rec)

\* lines 305-311: Map.set of a fresh key appends; then keep the last 100.
StoreStamp(store, rec) ==
    LET added == Append(store, rec)
    IN  IF Len(added) > MaxStoredStamps THEN Tail(added) ELSE added

\* line 293: image.substring exists on strings only.
BuildThrows(b) == b.image.kind # "string"

\* line 314: lat.toFixed / long.toFixed exist on numbers only.
LogThrows(b) == b.lat.kind # "number" \/ b.long.kind # "number"

\* lines 291-311: build the record and store it, or throw building it.
BuildAndStore(r) ==
    /\ pc[r] = "bumped"
    /\ IF BuildThrows(body[r])
       THEN /\ local' = [local EXCEPT ![r].thrown = TRUE]
            /\ pc' = [pc EXCEPT ![r] = "finally"]
            /\ UNCHANGED stamps
       ELSE /\ stamps' = StoreStamp(stamps, StampData(r))
            /\ pc' = [pc EXCEPT ![r] = "stored"]
            /\ UNCHANGED local
    /\ UNCHANGED <<textureVersion, isProcessing, nextId, body, resp, waited,
                   effect, lastGet, tileVars, extVars>>

\* lines 313-322: log, then the success response with textureVersion as it is now.
LogAndRespond(r) ==
    /\ pc[r] = "stored"
    /\ IF LogThrows(body[r])
       THEN local' = [local EXCEPT ![r].thrown = TRUE]
       ELSE local' = [local EXCEPT ![r].response =
                        [status |-> 200, success |-> TRUE, error |-> "",
                         stampId |-> local[r].stampId,
                         textureVersion |-> textureVersion]]
    /\ pc' = [pc EXCEPT ![r] = "finally"]
    /\ UNCHANGED <<textureVersion, isProcessing, stamps, nextId, body, resp,
                   waited, effect, lastGet, tileVars, extVars>>

Release_NotOnThrow(r) ==
    /\ pc[r] = "finally"
    /\ isProcessing' = local[r].thrown
    /\ resp' = [resp EXCEPT ![r] =
                  IF local[r].thrown THEN ServerError ELSE local[r].response]
    /\ effect' = [effect EXCEPT ![r] =
                    [version |-> textureVersion - local[r].entryVersion,
                     records |-> Len(stamps) - local[r].entryCount]]
    /\ pc' = [pc EXCEPT ![r] = "done"]
    /\ body' = [body EXCEPT ![r] = NominalBody]
    /\ local' = [local EXCEPT ![r] = NoLocal]
    /\ UNCHANGED <<textureVersion, stamps, nextId, waited, lastGet, tileVars, extVars>>

\* lines 323-332: finally releases the lock; a thrown error becomes the 500.
Release(r) ==
    /\ pc[r] = "finally"
    /\ isProcessing' = FALSE
    /\ resp' = [resp EXCEPT ![r] =
                  IF local[r].thrown THEN ServerError ELSE local[r].response]
    /\ effect' = [effect EXCEPT ![r] =
                    [version |-> textureVersion - local[r].entryVersion,
                     records |-> Len(stamps) - local[r].entryCount]]
    /\ pc' = [pc EXCEPT ![r] = "done"]
    /\ body' = [body EXCEPT ![r] = NominalBody]
    /\ local' = [local EXCEPT ![r] = NoLocal]
    /\ UNCHANGED <<textureVersion, stamps, nextId, waited, lastGet, tileVars, extVars>>

\* Array.prototype.slice(-n)
LastN(s, n) == IF Len(s) <= n THEN s ELSE SubSeq(s, Len(s) - n + 1, Len(s))

Reverse(s) == [i \in 1..Len(s) |-> s[Len(s) + 1 - i]]

\* lines 335-355: GET /api/stamp
GetResponse ==
    LET recent == Reverse(LastN(stamps, FeedSize))
    IN  [stamps |-> [i \in 1..Len(recent) |->
                        [id |-> recent[i].id,
                         lat |-> recent[i].lat,
                         long |-> recent[i].long,
                         zoom |-> recent[i].zoom,
                         textureVersion |-> recent[i].textureVersion,
                         tileAffected |-> recent[i].tilesAffected]],
         currentTextureVersion |-> textureVersion]

Get ==
    /\ lastGet' = GetResponse
    /\ lastGet' # lastGet
    /\ UNCHANGED <<textureVersion, isProcessing, stamps, nextId, pc, body,
                   local, resp, waited, effect, tileVars, extVars>>

NoGet == [stamps |-> <<>>, currentTextureVersion |-> 0]

NoTileIn == [latMin |-> 0, latMax |-> 0, longMin |-> 0, longMax |-> 0]

\* realtime.ts:280-282: a TileCache as constructed; absent keys hold NoData.
Keys == 1..NKeys
NoData == "none"
Datas == {"v1", "v2"}
NoCacheHist == [distinct |-> TRUE, hit |-> FALSE, evicted |-> 0, last |-> "new"]

CacheInit ==
    /\ cache = [k \in Keys |-> NoData]
    /\ accessOrder = <<>>
    /\ lru = <<>>
    /\ cacheHist = NoCacheHist

NoFnIn == [op |-> "none"]

FnIdle ==
    /\ fnIn = NoFnIn
    /\ fnOut = <<>>
    /\ fnPhase = "off"

\* part_002:14, part_003:15: both rate-limit maps start empty (NoLimit for
\* every user); no request has been made.
Users == {"ann", "bob"}
EReqs == 1..NEnhanceReq
NoLimit == [known |-> FALSE, count |-> 0, resetTime |-> 0]
NoELocal == [user |-> "", status |-> 0, error |-> "", remaining |-> 0,
             charged |-> 0]

LimitInit ==
    /\ now = 0
    /\ stampRateLimit = [u \in Users |-> NoLimit]
    /\ stampLog = [u \in Users |-> [age \in 0..(HourTicks - 1) |-> 0]]

NoQuota == [user |-> "", remaining |-> 0, resetTime |-> 0]

EnhanceInit ==
    /\ enhanceRateLimit = [u \in Users |-> NoLimit]
    /\ ePc = [q \in EReqs |-> "idle"]
    /\ eLocal = [q \in EReqs |-> NoELocal]
    /\ eQuota = NoQuota

NoDbResp == [user |-> "", status |-> 0, error |-> ""]

DbIdle == dbResp = NoDbResp

\* realtime.ts:22-28: a RealtimeManager as constructed; nothing has happened.
NoRtHist == [everOpened |-> FALSE, scheduled |-> 0, emitted |-> "none",
             last |-> "new", disconnected |-> FALSE]

RtInit ==
    /\ ws = 0
    /\ reconnectAttempts = 0
    /\ isConnected = FALSE
    /\ connectionFailed = FALSE
    /\ sockets = <<>>
    /\ timers = 0
    /\ rtHist = NoRtHist

RestIdle == DbIdle /\ RtInit

\* The state, at load, of everything but the stamp route and the tile calls.
ExtIdle == CacheInit /\ FnIdle /\ LimitInit /\ EnhanceInit /\ RestIdle

RouteInit ==
    /\ textureVersion = InitialVersion
    /\ isProcessing = FALSE
    /\ stamps = <<>>
    /\ nextId = 1
    /\ pc = [r \in Reqs |-> "idle"]
    /\ body = [r \in Reqs |-> NominalBody]
    /\ local = [r \in Reqs |-> NoLocal]
    /\ resp = [r \in Reqs |-> NoResp]
    /\ waited = [r \in Reqs |-> 0]
    /\ effect = [r \in Reqs |-> NoEffect]
    /\ lastGet = NoGet

TileIdle ==
    /\ tileIn = NoTileIn
    /\ tileOut = <<>>
    /\ tilePhase = "off"

Init == RouteInit /\ TileIdle /\ ExtIdle

Next ==
    \/ \E r \in Reqs, b \in Bodies : Receive(r, b)
    \/ \E r \in Reqs : Wake(r)
    \/ \E r \in Reqs : Prepare(r)
    \/ \E r \in Reqs : BuildAndStore(r)
    \/ \E r \in Reqs : LogAndRespond(r)
    \/ \E r \in Reqs : Release(r)
    \/ Get

Spec == Init /\ [][Next]_vars

(***************************************************************************)
(* Direct calls of getAffectedTiles(bounds) on the default 8x4 grid.       *)
(***************************************************************************)
LatGrid == {-90, -45, 0, 10, 45, 90}
LongGrid == {10 * k : k \in -MaxLongK..MaxLongK} \cup {45 * k : k \in -4..4}

TileInputs == [latMin : LatGrid, latMax : LatGrid,
               longMin : LongGrid, longMax : LongGrid]

AsBounds(b) == [latMin |-> RInt(b.latMin), latMax |-> RInt(b.latMax),
                longMin |-> RInt(b.longMin), longMax |-> RInt(b.longMax)]

InitTiles ==
    /\ RouteInit
    /\ ExtIdle
    /\ tileIn \in TileInputs
    /\ tileOut = <<>>
    /\ tilePhase = "in"

CallGetAffectedTiles ==
    /\ tilePhase = "in"
    /\ tileOut' = getAffectedTiles(AsBounds(tileIn), TilesX, TilesY)
    /\ tilePhase' = "out"
    /\ UNCHANGED <<tileIn, routeVars, extVars>>

NextTiles == CallGetAffectedTiles

SpecTiles == InitTiles /\ [][NextTiles]_vars

(***************************************************************************)
(* TileCache (realtime.ts:279-314)                                         *)
(***************************************************************************)
CachedKeys == {k \in Keys : cache[k] # NoData}

\* Array.prototype.filter((k) => k !== key)
Without(order, key) == SelectSeq(order, LAMBDA k : k # key)

Touch_Not(order, key) == order

\* lines 292-293: move the key to the end of accessOrder.
Touch(order, key) == Append(Without(order, key), key)

\* The last-access order after key k was set or hit, and after key e left.
LruAfter(k, gone) ==
    Append(SelectSeq(lru, LAMBDA j : j # k /\ j \notin gone), k)

\* lines 288-296: get(key); a miss changes nothing.
CacheGet(k) ==
    /\ IF cache[k] # NoData
       THEN /\ accessOrder' = Touch(accessOrder, k)
            /\ lru' = LruAfter(k, {})
            /\ cacheHist' = [cacheHist EXCEPT !.hit = TRUE, !.last = "hit"]
       ELSE /\ cacheHist' = [cacheHist EXCEPT !.last = "miss"]
            /\ UNCHANGED <<accessOrder, lru>>
    /\ UNCHANGED <<cache, routeVars, tileVars, fnVars, limitVars, enhanceVars, restVars>>

\* lines 298-308: set(key, data).
CacheSet(k, d) ==
    LET full == Cardinality(CachedKeys) >= CacheCapacity
        shift == full /\ accessOrder # <<>>
        oldest == Head(accessOrder)
        rest == IF shift THEN Tail(accessOrder) ELSE accessOrder
        gone == IF shift /\ cache[oldest] # NoData THEN {oldest} ELSE {}
    IN  /\ Len(rest) < MaxOrder
        /\ cache' = [j \in Keys |->
                        IF j = k THEN d
                        ELSE IF j \in gone THEN NoData ELSE cache[j]]
        /\ accessOrder' = Append(rest, k)
        /\ lru' = LruAfter(k, gone)
        /\ cacheHist' =
              [distinct |-> cacheHist.distinct /\ cache[k] = NoData,
               hit |-> cacheHist.hit,
               evicted |-> IF gone = {} THEN cacheHist.evicted ELSE oldest,
               last |-> "set"]
        /\ UNCHANGED <<routeVars, tileVars, fnVars, limitVars, enhanceVars, restVars>>

\* lines 310-313: clear().
CacheClear ==
    /\ cache' = [k \in Keys |-> NoData]
    /\ accessOrder' = <<>>
    /\ lru' = <<>>
    /\ cacheHist' = NoCacheHist
    /\ UNCHANGED <<routeVars, tileVars, fnVars, limitVars, enhanceVars, restVars>>

InitCache ==
    RouteInit /\ TileIdle /\ CacheInit /\ FnIdle /\ LimitInit /\ EnhanceInit /\ RestIdle

NextCache ==
    \/ \E k \in Keys : CacheGet(k)
    \/ \E k \in Keys, d \in Datas : CacheSet(k, d)
    \/ CacheClear

SpecCache == InitCache /\ [][NextCache]_vars

(***************************************************************************)
(* Direct calls of the coordinate functions, and of the part of POST       *)
(* /api/stamp that computes the drawing bounds (part_002:245-279).         *)
(***************************************************************************)
BoundsLats == {Null, Num(-60), Num(0), Num(60), Num(91)}
BoundsLongs == {Num(-180), Num(0), Num(179), Num(180)}
BoundsZooms == {Undef, Num(-4), Num(-1), Num(0), Num(1), Num(3), Num(10)}

BoundsInputs ==
    {[op |-> "bounds",
      body |-> [image |-> Str(5), lat |-> l, long |-> g, zoom |-> z]] :
        l \in BoundsLats, g \in BoundsLongs, z \in BoundsZooms}

Angles == {Rat(45 * k, 2) : k \in -MaxAngleK..MaxAngleK}
AngleInputs == {[op |-> "normalize", angle |-> a] : a \in Angles}

GridLats == {Rat(90 * k, GridDen) : k \in -GridDen..GridDen}
GridLongs == {Rat(180 * k, GridDen) : k \in -GridDen..GridDen}
GridUnit == {Rat(k, GridDen) : k \in 0..GridDen}

LatLongInputs ==
    {[op |-> "latlong", lat |-> lat, long |-> long] :
        lat \in GridLats, long \in GridLongs}

UVInputs == {[op |-> "uv", u |-> u, v |-> v] : u \in GridUnit, v \in GridUnit}

\* latLongToXYZ at the multiples of 45 degrees, for three radii.
Radii == {Rat(1, 2), RInt(1), RInt(5)}

XYZInputs ==
    {[op |-> "xyz", lat |-> 45 * i, long |-> 45 * j, radius |-> r] :
        i \in -2..2, j \in -4..4, r \in Radii}

\* latLongToCartesian at the multiples of 45 degrees.  At lat = 90 sin(phi)
\* is exactly 0 and the longitude that comes back depends on the signs of
\* zeros, which the symbolic values do not carry: that latitude is left out.
GlobeInputs ==
    {[op |-> "globe", lat |-> 45 * i, long |-> 45 * j, radius |-> r] :
        i \in -2..1, j \in -4..4, r \in Radii}

\* calculateDrawingBounds at the multiples of 45 degrees, zoom 1 to 10.
SpanInputs ==
    {[op |-> "span", lat |-> 45 * i, long |-> 45 * j, zoomLevel |-> z] :
        i \in -2..2, j \in {-4, 0, 4}, z \in 1..10}

PixelInputs ==
    {[op |-> "pixel", u |-> u, v |-> v] : u \in GridUnit, v \in GridUnit}

FnInputs ==
    BoundsInputs \cup AngleInputs \cup LatLongInputs \cup UVInputs
        \cup XYZInputs \cup PixelInputs \cup GlobeInputs \cup SpanInputs

InitFn ==
    /\ RouteInit /\ TileIdle /\ CacheInit /\ LimitInit /\ EnhanceInit /\ RestIdle
    /\ fnIn \in FnInputs
    /\ fnOut = <<>>
    /\ fnPhase = "in"

notFn == <<routeVars, tileVars, cacheVars, limitVars, enhanceVars, restVars>>

\* part_002:245-279: the validation, then calculateDrawingBounds(lat, long,
\* zoom || 5); a rejected body computes no bounds.
CallStampBounds ==
    /\ fnPhase = "in" /\ fnIn.op = "bounds"
    /\ LET b == fnIn.body
       IN  fnOut' = IF ValidationError(b) = ""
                    THEN [valid |-> TRUE,
                          bounds |-> calculateDrawingBounds(
                                        ToNumber(b.lat), ToNumber(b.long),
                                        ZoomOf(b))]
                    ELSE [valid |-> FALSE, bounds |-> ZeroBounds]
    /\ fnPhase' = "out"
    /\ UNCHANGED <<fnIn, notFn>>

\* normalizeAngle(angle), and normalizeAngle of its result.
CallNormalizeAngle ==
    /\ fnPhase = "in" /\ fnIn.op = "normalize"
    /\ LET once == normalizeAngle(fnIn.angle)
       IN  fnOut' = [once |-> once, twice |-> normalizeAngle(once)]
    /\ fnPhase' = "out"
    /\ UNCHANGED <<fnIn, notFn>>

\* uvToLatLong(latLongToUV(lat, long))
CallLatLongToUV ==
    /\ fnPhase = "in" /\ fnIn.op = "latlong"
    /\ LET uv == latLongToUV(fnIn.lat, fnIn.long)
       IN  fnOut' = [uv |-> uv, back |-> uvToLatLong(uv.u, uv.v)]
    /\ fnPhase' = "out"
    /\ UNCHANGED <<fnIn, notFn>>

\* latLongToUV(uvToLatLong(u, v))
CallUVToLatLong ==
    /\ fnPhase = "in" /\ fnIn.op = "uv"
    /\ LET ll == uvToLatLong(fnIn.u, fnIn.v)
       IN  fnOut' = [latLong |-> ll, back |-> latLongToUV(ll.lat, ll.long)]
    /\ fnPhase' = "out"
    /\ UNCHANGED <<fnIn, notFn>>

\* xyzToLatLong(latLongToXYZ(lat, long, radius), radius)
CallLatLongToXYZ ==
    /\ fnPhase = "in" /\ fnIn.op = "xyz"
    /\ LET p == latLongToXYZ(fnIn.lat, fnIn.long, fnIn.radius)
       IN  fnOut' = [point |-> p,
                     back |-> xyzToLatLong(p.x, p.y, p.z, fnIn.radius)]
    /\ fnPhase' = "out"
    /\ UNCHANGED <<fnIn, notFn>>

\* uvToTilePixel(u, v) with the default tile size and grid.
CallUVToTilePixel ==
    /\ fnPhase = "in" /\ fnIn.op = "pixel"
    /\ fnOut' = uvToTilePixel(fnIn.u, fnIn.v, TileWidth, TileHeight,
                              TilesX, TilesY)
    /\ fnPhase' = "out"
    /\ UNCHANGED <<fnIn, notFn>>

\* cartesianToLatLong(latLongToCartesian(lat, long, radius), radius)
CallLatLongToCartesian ==
    /\ fnPhase = "in" /\ fnIn.op = "globe"
    /\ LET p == latLongToCartesian(fnIn.lat, fnIn.long, fnIn.radius)
       IN  fnOut' = [point |-> p,
                     back |-> cartesianToLatLong(p.x, p.y, p.z, fnIn.radius)]
    /\ fnPhase' = "out"
    /\ UNCHANGED <<fnIn, notFn>>

\* The longitude span calculateDrawingBounds computes for a latitude and zoom.
CallLongSpan ==
    /\ fnPhase = "in" /\ fnIn.op = "span"
    /\ fnOut' = longSpanOf(fnIn.lat, fnIn.zoomLevel)
    /\ fnPhase' = "out"
    /\ UNCHANGED <<fnIn, notFn>>

NextFn ==
    \/ CallLatLongToXYZ
    \/ CallLongSpan
    \/ CallLatLongToCartesian
    \/ CallUVToTilePixel
    \/ CallStampBounds
    \/ CallNormalizeAngle
    \/ CallLatLongToUV
    \/ CallUVToLatLong

SpecFn == InitFn /\ [][NextFn]_vars

(***************************************************************************)
(* The in-memory rate limiter of the stamp route (part_002:14-40).         *)
(***************************************************************************)
notLimit == <<routeVars, tileVars, cacheVars, fnVars, enhanceVars, restVars>>

RECURSIVE SumTo(_, _)
SumTo(f, n) == IF n < 0 THEN 0 ELSE f[n] + SumTo(f, n - 1)

\* The stamps of user u allowed during the last hour: at the ticks
\* now - HourTicks + 1 .. now.
AllowedInLastHour(u) == SumTo(stampLog[u], HourTicks - 1)

\* line 25: now > userLimit.resetTime
Expired(limit, t) == t > limit.resetTime

\* lines 17-40: checkRateLimit(userId) at Date.now() = t; the map entry
\* afterwards and the answer.
checkRateLimit(limit, t, window, max) ==
    IF ~limit.known \/ Expired(limit, t)
    THEN [entry |-> [known |-> TRUE, count |-> 1, resetTime |-> t + window],
          allowed |-> TRUE, remaining |-> max - 1]
    ELSE IF limit.count >= max
    THEN [entry |-> limit, allowed |-> FALSE, remaining |-> 0]
    ELSE [entry |-> [limit EXCEPT !.count = @ + 1],
          allowed |-> TRUE, remaining |-> max - (limit.count + 1)]

\* A stamp request of user u reaches checkRateLimit.
CheckStampLimit(u) ==
    LET res == checkRateLimit(stampRateLimit[u], now, HourTicks,
                              maxStampsPerHour)
    IN  /\ stampRateLimit' = [stampRateLimit EXCEPT ![u] = res.entry]
        /\ stampLog' = IF res.allowed
                       THEN [stampLog EXCEPT ![u][0] = @ + 1]
                       ELSE stampLog
        /\ UNCHANGED <<now, notLimit>>

\* Date.now() moves on by one tick.
Tick ==
    /\ now < MaxNow
    /\ now' = now + 1
    /\ stampLog' = [u \in Users |->
                       [age \in 0..(HourTicks - 1) |->
                           IF age = 0 THEN 0 ELSE stampLog[u][age - 1]]]
    /\ UNCHANGED <<stampRateLimit, notLimit>>

InitLimit ==
    RouteInit /\ TileIdle /\ CacheInit /\ FnIdle /\ LimitInit /\ EnhanceInit /\ RestIdle

NextLimit ==
    \/ \E u \in Users : CheckStampLimit(u)
    \/ Tick

SpecLimit == InitLimit /\ [][NextLimit]_vars

(***************************************************************************)
(* POST /api/enhance (part_003:56-196).                                    *)
(***************************************************************************)
notEnhance ==
    <<routeVars, tileVars, cacheVars, fnVars, stampRateLimit, stampLog, restVars>>

EResponse(u, status, error, remaining, charged) ==
    [user |-> u, status |-> status, error |-> error,
     remaining |-> remaining, charged |-> charged]

\* lines 58-100: from the API-key test to the rate-limit test.  configured
\* tells whether OPENAI_API_KEY is set, valid whether imageData is a PNG data
\* URL.  An allowed request goes on to the awaited upload and OpenAI call.
EnhanceReceive(q, u, configured, valid) ==
    /\ ePc[q] = "idle"
    /\ IF ~configured
       THEN /\ eLocal' = [eLocal EXCEPT ![q] =
                  EResponse(u, 503, "AI enhancement is not configured", 0, 0)]
            /\ ePc' = [ePc EXCEPT ![q] = "done"]
            /\ UNCHANGED enhanceRateLimit
       ELSE IF ~valid
       THEN /\ eLocal' = [eLocal EXCEPT ![q] =
                  EResponse(u, 400, "Invalid image", 0, 0)]
            /\ ePc' = [ePc EXCEPT ![q] = "done"]
            /\ UNCHANGED enhanceRateLimit
       ELSE LET res == checkRateLimit(enhanceRateLimit[u], now, DayTicks,
                                      maxEnhancementsPerDay)
            IN  /\ enhanceRateLimit' = [enhanceRateLimit EXCEPT ![u] = res.entry]
                /\ IF res.allowed
                   THEN /\ eLocal' = [eLocal EXCEPT ![q] =
                              EResponse(u, 0, "", res.remaining, 1)]
                        /\ ePc' = [ePc EXCEPT ![q] = "awaiting"]
                   ELSE /\ eLocal' = [eLocal EXCEPT ![q] =
                              EResponse(u, 429, "Rate limit exceeded", 0, 0)]
                        /\ ePc' = [ePc EXCEPT ![q] = "done"]
    /\ UNCHANGED <<now, eQuota, notEnhance>>

\* lines 166-171: the upload and the OpenAI call returned an image URL.
EnhanceSucceeds(q) ==
    /\ ePc[q] = "awaiting"
    /\ eLocal' = [eLocal EXCEPT ![q].status = 200]
    /\ ePc' = [ePc EXCEPT ![q] = "done"]
    /\ UNCHANGED <<now, enhanceRateLimit, eQuota, notEnhance>>

\* lines 173-184: the upload or the OpenAI call threw, or no URL came back.
EnhanceFails(q) ==
    /\ ePc[q] = "awaiting"
    /\ eLocal' = [eLocal EXCEPT ![q].status = 503,
                                ![q].error = "AI enhancement temporarily unavailable"]
    /\ ePc' = [ePc EXCEPT ![q] = "done"]
    /\ UNCHANGED <<now, enhanceRateLimit, eQuota, notEnhance>>

\* The response has been sent; the slot serves the next request.
EnhanceReturn(q) ==
    /\ ePc[q] = "done"
    /\ eLocal' = [eLocal EXCEPT ![q] = NoELocal]
    /\ ePc' = [ePc EXCEPT ![q] = "idle"]
    /\ UNCHANGED <<now, enhanceRateLimit, eQuota, notEnhance>>

\* part_003:213: userLimit && now < userLimit.resetTime
StillOpen(limit, t) == limit.known /\ t < limit.resetTime

\* part_003:199-224: GET /api/enhance for user u.
EnhanceGet(u) ==
    LET limit == enhanceRateLimit[u]
        left == maxEnhancementsPerDay - limit.count
    IN  /\ eQuota' =
              IF StillOpen(limit, now)
              THEN [user |-> u,
                    remaining |-> IF left < 0 THEN 0 ELSE left,
                    resetTime |-> limit.resetTime]
              ELSE [user |-> u, remaining |-> maxEnhancementsPerDay,
                    resetTime |-> now + DayTicks]
        /\ UNCHANGED <<now, enhanceRateLimit, ePc, eLocal, notEnhance>>

InitEnhance ==
    RouteInit /\ TileIdle /\ CacheInit /\ FnIdle /\ LimitInit /\ EnhanceInit /\ RestIdle

NextEnhance ==
    \/ \E q \in EReqs, u \in Users, configured \in BOOLEAN, valid \in BOOLEAN :
          EnhanceReceive(q, u, configured, valid)
    \/ \E q \in EReqs : EnhanceSucceeds(q)
    \/ \E q \in EReqs : EnhanceFails(q)
    \/ \E q \in EReqs : EnhanceReturn(q)
    \/ Tick

SpecEnhance == InitEnhance /\ [][NextEnhance]_vars

\* POST requests one at a time, GET at any time, and the clock.
InitQuota == InitEnhance

NextQuota ==
    \/ \E u \in Users, configured \in BOOLEAN, valid \in BOOLEAN :
          EnhanceReceive(1, u, configured, valid)
    \/ EnhanceSucceeds(1)
    \/ EnhanceFails(1)
    \/ EnhanceReturn(1)
    \/ \E u \in Users : EnhanceGet(u)
    \/ Tick

SpecQuota == InitQuota /\ [][NextQuota]_vars

(***************************************************************************)
(* The Supabase-backed POST /api/stamp (part_002:42-160).                  *)
(***************************************************************************)
\* What the body's imageData may be: absent, not a PNG data URL, a PNG data
\* URL of more than 5 MB, a PNG data URL within the limit.
ImageKinds == {"absent", "jpeg", "big", "png"}

DbResponse(u, status, error) == [user |-> u, status |-> status, error |-> error]

\* lines 42-160.  stored tells whether the upload and the insert succeed.
\* The tests run in the order of the source: missing fields, rate limit,
\* image format, image size; the storage and database calls touch nothing
\* the limiter reads.
SupabasePost(u, image, stored) ==
    /\ IF image = "absent"
       THEN /\ dbResp' = DbResponse(u, 400, "Missing required fields: imageData and bounds")
            /\ UNCHANGED stampRateLimit
       ELSE LET res == checkRateLimit(stampRateLimit[u], now, HourTicks,
                                      maxStampsPerHour)
            IN  /\ stampRateLimit' = [stampRateLimit EXCEPT ![u] = res.entry]
                /\ dbResp' =
                      IF ~res.allowed
                      THEN DbResponse(u, 429, "Rate limit exceeded")
                      ELSE IF image = "jpeg"
                      THEN DbResponse(u, 400, "Invalid image format. Only PNG images are supported")
                      ELSE IF image = "big"
                      THEN DbResponse(u, 400, "Image size exceeds 5MB limit")
                      ELSE IF ~stored
                      THEN DbResponse(u, 500, "Failed to upload image")
                      ELSE DbResponse(u, 200, "")
    /\ UNCHANGED <<now, stampLog, routeVars, tileVars, cacheVars, fnVars,
                   enhanceVars, rtVars>>

InitStampDb ==
    RouteInit /\ TileIdle /\ CacheInit /\ FnIdle /\ LimitInit /\ EnhanceInit /\ RestIdle

NextStampDb ==
    \/ \E u \in Users, image \in ImageKinds, stored \in BOOLEAN :
          SupabasePost(u, image, stored)
    \/ Tick

SpecStampDb == InitStampDb /\ [][NextStampDb]_vars

(***************************************************************************)
(* POST /api/stamp requests served one after another, each one succeeding  *)
(* (part_002:245-325 run from the body to the response), and GET.          *)
(***************************************************************************)
\* The bodies stamped in sequence: the one of the n-th stamp.
BodyOf(n) ==
    [image |-> Str(5), lat |-> Num(0), long |-> Num(0),
     zoom |-> IF n % 2 = 0 THEN Undef ELSE Num(10)]

\* lines 245-325 for a body that passes validation and throws nowhere: the
\* lock is free before and after.
CommitStamp ==
    LET b == BodyOf(nextId)
        bounds == calculateDrawingBounds(ToNumber(b.lat), ToNumber(b.long),
                                         ZoomOf(b))
        version == BumpVersion(textureVersion)
        stampData ==
            [id |-> nextId,
             lat |-> b.lat,
             long |-> b.long,
             zoom |-> ZoomOf(b),
             textureVersion |-> version,
             tilesAffected |-> getAffectedTiles(bounds, TilesX, TilesY),
             uvPosition |-> latLongToUV(RInt(ToNumber(b.lat)),
                                        RInt(ToNumber(b.long))),
             bounds |-> bounds]
    IN  /\ nextId <= MaxStamps
        /\ ValidationError(b) = "" /\ ~BuildThrows(b) /\ ~LogThrows(b)
        /\ LockFree
        /\ nextId' = nextId + 1
        /\ textureVersion' = version
        /\ stamps' = StoreStamp(stamps, stampData)
        /\ resp' = [resp EXCEPT ![1] =
                      [status |-> 200, success |-> TRUE, error |-> "",
                       stampId |-> nextId, textureVersion |-> version]]
        /\ UNCHANGED <<isProcessing, pc, body, local, waited, effect, lastGet,
                       tileVars, extVars>>

InitStore == Init

NextStore ==
    \/ CommitStamp
    \/ Get

SpecStore == InitStore /\ [][NextStore]_vars

(***************************************************************************)
(* RealtimeManager (realtime.ts:21-106).  The manager runs in a browser    *)
(* with WebSockets enabled; every handler runs to completion.  A socket is *)
(* "connecting" from new WebSocket() on, "open" after its open event,      *)
(* "closing" after close() was called on it and "closed" after its close   *)
(* event.                                                                  *)
(***************************************************************************)
WS_ENABLED == TRUE

notRt == <<routeVars, tileVars, cacheVars, fnVars, limitVars, enhanceVars, dbVars>>

MayReconnect_Always(attempts) == TRUE

\* line 88: this.reconnectAttempts < this.maxReconnectAttempts
MayReconnect(attempts) == attempts < maxReconnectAttempts

\* lines 37-85: the body of connect(); throws tells whether new WebSocket
\* throws (a malformed url).  by is "connect" for the caller and "timer" for
\* the reconnect timer.
ConnectBody(by, throws) ==
    IF ~WS_ENABLED \/ connectionFailed
    THEN /\ rtHist' = [rtHist EXCEPT !.emitted = "disconnect", !.last = by,
                                     !.disconnected =
                                         IF by = "connect" THEN FALSE ELSE @]
         /\ UNCHANGED <<ws, sockets, connectionFailed>>
    ELSE IF throws
    THEN /\ connectionFailed' = TRUE
         /\ rtHist' = [rtHist EXCEPT !.emitted = "none", !.last = by,
                                     !.disconnected =
                                         IF by = "connect" THEN FALSE ELSE @]
         /\ UNCHANGED <<ws, sockets>>
    ELSE /\ Len(sockets) < MaxSockets
         /\ sockets' = Append(sockets, "connecting")
         /\ ws' = Len(sockets) + 1
         /\ rtHist' = [rtHist EXCEPT !.emitted = "none", !.last = by,
                                     !.disconnected =
                                         IF by = "connect" THEN FALSE ELSE @]
         /\ UNCHANGED connectionFailed

\* The caller invokes connect(url).
RtConnect ==
    /\ \E throws \in BOOLEAN : ConnectBody("connect", throws)
    /\ UNCHANGED <<reconnectAttempts, isConnected, timers, notRt>>

\* lines 90-92: a reconnect timer fires and calls connect().
RtTimerFires ==
    /\ timers > 0
    /\ timers' = timers - 1
    /\ ConnectBody("timer", FALSE)
    /\ UNCHANGED <<reconnectAttempts, isConnected, notRt>>

\* lines 51-57: ws.onopen
RtSocketOpens(i) ==
    /\ sockets[i] = "connecting"
    /\ sockets' = [sockets EXCEPT ![i] = "open"]
    /\ isConnected' = TRUE
    /\ reconnectAttempts' = 0
    /\ connectionFailed' = FALSE
    /\ rtHist' = [rtHist EXCEPT !.everOpened = TRUE, !.emitted = "connect",
                                !.last = "open"]
    /\ UNCHANGED <<ws, timers, notRt>>

\* lines 59-68: ws.onmessage with a stamp message
RtSocketMessage(i) ==
    /\ sockets[i] = "open"
    /\ rtHist' = [rtHist EXCEPT !.emitted = "stamp", !.last = "message"]
    /\ UNCHANGED <<ws, reconnectAttempts, isConnected, connectionFailed,
                   sockets, timers, notRt>>

\* lines 77-80: ws.onerror
RtSocketError(i) ==
    /\ sockets[i] \in {"connecting", "open", "closing"}
    /\ rtHist' = [rtHist EXCEPT !.emitted = "error", !.last = "error"]
    /\ UNCHANGED <<ws, reconnectAttempts, isConnected, connectionFailed,
                   sockets, timers, notRt>>

\* lines 71-75 and 87-98: ws.onclose, which calls attemptReconnect().
RtSocketCloses(i) ==
    /\ sockets[i] \in {"connecting", "open", "closing"}
    /\ sockets' = [sockets EXCEPT ![i] = "closed"]
    /\ isConnected' = FALSE
    /\ IF MayReconnect(reconnectAttempts)
       THEN /\ reconnectAttempts' = reconnectAttempts + 1
            /\ timers' = timers + 1
            /\ rtHist' = [rtHist EXCEPT !.scheduled = @ + 1,
                                        !.emitted = "disconnect",
                                        !.last = "close"]
            /\ UNCHANGED connectionFailed
       ELSE /\ connectionFailed' = TRUE
            /\ rtHist' = [rtHist EXCEPT !.emitted = "disconnect",
                                        !.last = "close"]
            /\ UNCHANGED <<reconnectAttempts, timers>>
    /\ UNCHANGED <<ws, notRt>>

\* lines 100-106: disconnect()
RtDisconnect ==
    /\ IF ws # 0
       THEN /\ sockets' = [sockets EXCEPT ![ws] =
                              IF @ = "closed" THEN @ ELSE "closing"]
            /\ ws' = 0
       ELSE UNCHANGED <<ws, sockets>>
    /\ isConnected' = FALSE
    /\ rtHist' = [rtHist EXCEPT !.emitted = "none", !.last = "disconnect",
                                !.disconnected = isConnected \/ @]
    /\ UNCHANGED <<reconnectAttempts, connectionFailed, timers, notRt>>

InitRt ==
    /\ RouteInit /\ TileIdle /\ CacheInit /\ FnIdle /\ LimitInit /\ EnhanceInit
    /\ DbIdle /\ RtInit

NextRt ==
    \/ RtConnect
    \/ RtTimerFires
    \/ \E i \in 1..Len(sockets) : RtSocketOpens(i)
    \/ \E i \in 1..Len(sockets) : RtSocketMessage(i)
    \/ \E i \in 1..Len(sockets) : RtSocketError(i)
    \/ \E i \in 1..Len(sockets) : RtSocketCloses(i)
    \/ RtDisconnect

SpecRt == InitRt /\ [][NextRt]_vars

(***************************************************************************)
(* The stamp route's lock under fair scheduling: a timer that was set      *)
(* fires, and code that was started runs on to its next await.  Requests   *)
(* arrive when they will.                                                  *)
(***************************************************************************)
\* A body that succeeds, one whose image makes line 293 throw, one that
\* passes validation and makes line 314 throw, and one that is rejected.
LockBodies ==
    {NominalBody,
     [NominalBody EXCEPT !.image = Num(7)],
     [NominalBody EXCEPT !.lat = Null],
     [NominalBody EXCEPT !.lat = Num(91)]}

NextLock ==
    \/ \E r \in Reqs, b \in LockBodies : Receive(r, b)
    \/ \E r \in Reqs : Wake(r)
    \/ \E r \in Reqs : Prepare(r)
    \/ \E r \in Reqs : BuildAndStore(r)
    \/ \E r \in Reqs : LogAndRespond(r)
    \/ \E r \in Reqs : Release(r)

\* Prepare(r) is enabled exactly when pc[r] = "locked" and always changes
\* pc, so its weak fairness WF_vars(Prepare(r)) is written out as
\* "infinitely often disabled or infinitely often taken".
FairLock ==
    \A r \in Reqs :
        /\ WF_vars(Wake(r))
        /\ ([]<>(pc[r] # "locked") \/ []<><<Prepare(r)>>_vars)
        /\ WF_vars(BuildAndStore(r))
        /\ WF_vars(LogAndRespond(r))
        /\ WF_vars(Release(r))

SpecLock == Init /\ [][NextLock]_vars /\ FairLock

(***************************************************************************)
(* Properties of the stamp route, checked under Spec.                      *)
(***************************************************************************)
SectionSet == {r \in Reqs : pc[r] \in InSection}

Succeeded(r) == pc[r] = "done" /\ resp[r].success

Failed(r) == pc[r] = "done" /\ ~resp[r].success

\* C1: at most one request is between taking the lock and releasing it,
\* isProcessing is true exactly while one is, and no request enters the
\* section in a step that starts with isProcessing true.
C1_MutualExclusion ==
    /\ [](Cardinality(SectionSet) <= 1 /\ (isProcessing <=> SectionSet # {}))
    /\ [][\A r \in Reqs :
            (pc[r] \notin InSection /\ pc'[r] \in InSection) => ~isProcessing]_vars

C1_Witness ==
    \E r1, r2 \in Reqs :
        /\ pc[r1] \in InSection
        /\ pc[r2] = "sleep"
        /\ waited[r2] = MaxPolls

\* C2: a POST that does not return success (400 or 500) has left
\* textureVersion unchanged and added no record to the store.
C2_FailedStampNoEffect ==
    \A r \in Reqs : Failed(r) => effect[r] = NoEffect

\* C3: textureVersion never decreases, a POST that returns success has
\* increased it by exactly 1, and GET does not change it.
C3_VersionMonotonic ==
    [][/\ textureVersion' >= textureVersion
       /\ (lastGet' # lastGet => textureVersion' = textureVersion)
       /\ \A r \in Reqs :
            (pc[r] # "done" /\ pc'[r] = "done" /\ resp'[r].success)
                => /\ effect'[r].version = 1
                   /\ resp'[r].textureVersion = textureVersion]_vars

C3_Witness ==
    /\ \E r \in Reqs : Succeeded(r) /\ resp[r].textureVersion = InitialVersion + NReq
    /\ lastGet.currentTextureVersion = InitialVersion + NReq

\* C4: no stamp of concurrent valid POSTs is lost: every success has exactly
\* one record, carrying the textureVersion of its response; the stored
\* versions strictly increase in commit order; and when all N requests
\* succeeded the store holds N records and textureVersion is initial + N.
C4_NoLostStamp ==
    /\ \A r \in Reqs :
          Succeeded(r) =>
              /\ Cardinality({i \in 1..Len(stamps) :
                                 stamps[i].id = resp[r].stampId}) = 1
              /\ \A i \in 1..Len(stamps) :
                    stamps[i].id = resp[r].stampId
                        => stamps[i].textureVersion = resp[r].textureVersion
    /\ \A i, j \in 1..Len(stamps) :
          i < j => stamps[i].textureVersion < stamps[j].textureVersion
    /\ (\A r \in Reqs : Succeeded(r)) =>
          /\ Len(stamps) = NReq
          /\ textureVersion = InitialVersion + NReq

C4_Witness ==
    /\ \A r \in Reqs : Succeeded(r)
    /\ \E i \in 1..Len(stamps) : stamps[i].long = Num(179)

\* C5: a POST whose image is missing or empty, or whose latitude or
\* longitude is a number out of range, is rejected with status 400 in the
\* step that parses it, before the lock is taken; textureVersion, the store
\* and isProcessing are unchanged; when no field is missing the error names
\* a coordinate that is out of range, latitude first.
ImageMissing(b) == b.image = Undef \/ b.image = Str(0)

LatBad(b) == b.lat.kind = "number" /\ (b.lat.val < -90 \/ b.lat.val > 90)

LongBad(b) == b.long.kind = "number" /\ (b.long.val < -180 \/ b.long.val > 180)

ClaimInvalid(b) == ImageMissing(b) \/ LatBad(b) \/ LongBad(b)

NamesFailure(b, e) ==
    /\ e = "Invalid latitude" => LatBad(b)
    /\ e = "Invalid longitude" => LongBad(b)
    /\ (~ImageMissing(b) /\ b.lat # Undef /\ b.long # Undef)
          => e = (IF LatBad(b) THEN "Invalid latitude" ELSE "Invalid longitude")

CenterTile(lat, long) ==
    LET uv == latLongToUV(RInt(lat), RInt(long))
    IN  [x |-> NormalizeX(RFloor(RMul(uv.u, RInt(TilesX))), TilesX),
         y |-> NormalizeY(RFloor(RMul(uv.v, RInt(TilesY))), TilesY)]

\* C8: every stored stamp whose centre is a coordinate has a non-empty
\* tilesAffected that contains the tile of its centre.
C8_StampCoversCenter ==
    \A i \in 1..Len(stamps) :
        (stamps[i].lat.kind = "number" /\ stamps[i].long.kind = "number")
            => /\ stamps[i].tilesAffected # <<>>
               /\ \E k \in 1..Len(stamps[i].tilesAffected) :
                     stamps[i].tilesAffected[k]
                         = CenterTile(stamps[i].lat.val, stamps[i].long.val)

(***************************************************************************)
(* Properties of getAffectedTiles, checked under SpecTiles.                *)
(***************************************************************************)
\* C7: bounds with longMin = 170 and longMax = -170 give a non-empty result
\* with a tile of column 7 and a tile of column 0.
C7_AntimeridianTiles ==
    (tilePhase = "out" /\ tileIn.longMin = 170 /\ tileIn.longMax = -170
        /\ tileIn.latMin <= tileIn.latMax)
        => /\ tileOut # <<>>
           /\ \E i \in 1..Len(tileOut) : tileOut[i].x = TilesX - 1
           /\ \E i \in 1..Len(tileOut) : tileOut[i].x = 0

\* C9: getAffectedTiles never returns the same tile twice.
C9_NoDuplicateTiles ==
    tilePhase = "out" =>
        \A i, j \in 1..Len(tileOut) : i # j => tileOut[i] # tileOut[j]

\* C10: every tile returned has 0 <= x < tilesX and 0 <= y < tilesY, also
\* for longitudes outside [-180, 180].
C10_TileIdsInGrid ==
    tilePhase = "out" =>
        \A i \in 1..Len(tileOut) :
            /\ 0 <= tileOut[i].x /\ tileOut[i].x < TilesX
            /\ 0 <= tileOut[i].y /\ tileOut[i].y < TilesY

C10_Witness ==
    /\ tilePhase = "out"
    /\ tileIn.longMin < -180
    /\ tileIn.longMax > 180
    /\ tileIn.latMin = -90
    /\ Len(tileOut) > TilesX * TilesY

(***************************************************************************)
(* Properties of the TileCache, checked under SpecCache.                   *)
(***************************************************************************)
\* C11: after any sequence of get, set and clear the number of cached
\* entries never exceeds the capacity.
C11_CacheBounded == Cardinality(CachedKeys) <= CacheCapacity

\* C12: as long as only keys that were not cached have been set since the
\* cache was empty, a set of a further new key on a full cache evicts exactly
\* one entry, the key whose last access (set or get hit) is the oldest.
C12_EvictsLeastRecent ==
    [][\A k \in Keys, d \in Datas :
          (/\ cacheHist.distinct
           /\ cache[k] = NoData
           /\ Cardinality(CachedKeys) = CacheCapacity
           /\ CacheSet(k, d))
              => /\ {j \in Keys : cache'[j] # NoData}
                      = (CachedKeys \ {Head(lru)}) \cup {k}
                 /\ cacheHist'.evicted = Head(lru)]_vars

\* An overflow set has evicted a key after a get hit made an older-set key
\* the more recent one: the evicted key is not the one that was set first.
C12_Witness ==
    /\ cacheHist.distinct
    /\ cacheHist.hit
    /\ cacheHist.evicted = 2
    /\ cache[1] # NoData
    /\ Cardinality(CachedKeys) = CacheCapacity
    /\ lru = <<1, 3>>

\* C20: set on a key that is already cached replaces its value in place: the
\* cached keys and the other values are unchanged, and accessOrder lists
\* every cached key exactly once with the updated key last.
C20_SetInPlace ==
    [][\A k \in Keys, d \in Datas :
          (cache[k] # NoData /\ CacheSet(k, d))
              => /\ cache' = [cache EXCEPT ![k] = d]
                 /\ \A j \in CachedKeys :
                       Cardinality({i \in 1..Len(accessOrder') :
                                       accessOrder'[i] = j}) = 1
                 /\ accessOrder'[Len(accessOrder')] = k]_vars

(***************************************************************************)
(* Properties of the coordinate functions, checked under SpecFn.           *)
(***************************************************************************)
Returned(op) == fnPhase = "out" /\ fnIn.op = op

InRange(x, lo, hi) == RLe(RInt(lo), x) /\ RLe(x, RInt(hi))

\* C13: for every body that passes the validation of POST /api/stamp,
\* whatever its zoom, the drawing bounds have latMin <= latMax, both within
\* [-90, 90].
C13_LatBoundsOrdered ==
    (Returned("bounds") /\ fnOut.valid)
        => /\ RLe(fnOut.bounds.latMin, fnOut.bounds.latMax)
           /\ InRange(fnOut.bounds.latMin, -90, 90)
           /\ InRange(fnOut.bounds.latMax, -90, 90)

\* C14: normalizeAngle returns a value in [-180, 180] that differs from its
\* argument by a whole multiple of 360, and normalizing the result again
\* changes nothing; so longMin and longMax of calculateDrawingBounds are in
\* [-180, 180].
C14_NormalizeAngle ==
    /\ Returned("normalize")
          => /\ InRange(fnOut.once, -180, 180)
             /\ RDiv(RSub(fnIn.angle, fnOut.once), RInt(360)).d = 1
             /\ fnOut.twice = fnOut.once
    /\ (Returned("bounds") /\ fnOut.valid)
          => /\ InRange(fnOut.bounds.longMin, -180, 180)
             /\ InRange(fnOut.bounds.longMax, -180, 180)

\* An angle that takes more than one turn of the loop has been normalized.
C14_Witness ==
    /\ Returned("normalize")
    /\ fnIn.angle = RInt(900)
    /\ fnOut.once = RInt(180)

\* C15: uvToLatLong(latLongToUV(lat, long)) = (lat, long) on the grid of
\* valid coordinates, and latLongToUV(uvToLatLong(u, v)) = (u, v) on the
\* grid of the unit square.
C15_UVRoundTrip ==
    /\ Returned("latlong")
          => fnOut.back = [lat |-> fnIn.lat, long |-> fnIn.long]
    /\ Returned("uv")
          => fnOut.back = [u |-> fnIn.u, v |-> fnIn.v]

\* A coordinate that is not a whole number of degrees has made the round trip.
C15_Witness ==
    /\ Returned("latlong")
    /\ fnIn.lat.d # 1 /\ fnIn.long.d # 1
    /\ fnOut.uv.u.d # 1
    /\ fnOut.back.lat = fnIn.lat

\* C16: latLongToUV maps lat = 90 to v = 0, lat = -90 to v = 1, long = -180
\* to u = 0 and long = 180 to u = 1, and gives u and v in [0, 1] for every
\* valid coordinate.
C16_UVCorners ==
    Returned("latlong")
        => /\ fnIn.lat = RInt(90) => fnOut.uv.v = RInt(0)
           /\ fnIn.lat = RInt(-90) => fnOut.uv.v = RInt(1)
           /\ fnIn.long = RInt(-180) => fnOut.uv.u = RInt(0)
           /\ fnIn.long = RInt(180) => fnOut.uv.u = RInt(1)
           /\ InRange(fnOut.uv.u, 0, 1)
           /\ InRange(fnOut.uv.v, 0, 1)

\* The south pole at the antimeridian has been mapped to the corner (1, 1).
C16_Witness ==
    /\ Returned("latlong")
    /\ fnIn.lat = RInt(-90) /\ fnIn.long = RInt(180)
    /\ fnOut.uv = [u |-> RInt(1), v |-> RInt(1)]

\* C17: xyzToLatLong(latLongToXYZ(lat, long, r), r) = (lat, long) for valid
\* coordinates and r > 0, the poles and long = 180 and -180 included.
C17_XYZRoundTrip ==
    Returned("xyz") => fnOut.back = [lat |-> fnIn.lat, long |-> fnIn.long]

\* The round trip has been made at a pole and at the antimeridian, with a
\* radius other than 1; only the sign of x tells -180 from 180.
C17_Witness ==
    /\ Returned("xyz")
    /\ fnIn.lat = 90 /\ fnIn.long = -180 /\ fnIn.radius = RInt(5)
    /\ fnOut.point.x.sgn = -1
    /\ fnOut.back.long = -180

(***************************************************************************)
(* Properties of the stamp rate limiter, checked under SpecLimit.          *)
(***************************************************************************)
\* C18: in any interval of one hour checkRateLimit allows at most 10
\* requests of a user, and a request of one user leaves every other user's
\* counter as it was.
C18_TenPerHour ==
    [][\A u \in Users :
          /\ SumTo(stampLog'[u], HourTicks - 1) <= maxStampsPerHour
          /\ CheckStampLimit(u)
                => \A v \in Users \ {u} :
                      stampRateLimit'[v] = stampRateLimit[v]]_vars

(***************************************************************************)
(* Properties of POST /api/enhance, checked under SpecEnhance.             *)
(***************************************************************************)
\* C19: a request whose AI call failed (the 503 answer of the inner catch)
\* has taken nothing from the user's daily quota.
C19_FailureNotCharged ==
    \A q \in EReqs :
        (/\ ePc[q] = "done"
         /\ eLocal[q].status = 503
         /\ eLocal[q].error = "AI enhancement temporarily unavailable")
            => eLocal[q].charged = 0

\* C21: get leaves the cached entries as they are; a miss leaves accessOrder
\* as it is, and a hit moves the hit key to the end of accessOrder and keeps
\* the other keys in their order.
C21_GetOnlyMovesHitKey ==
    [][\A k \in Keys :
          CacheGet(k)
              => /\ cache' = cache
                 /\ cache[k] = NoData => accessOrder' = accessOrder
                 /\ cache[k] # NoData
                       => /\ Without(accessOrder', k) = Without(accessOrder, k)
                          /\ accessOrder' = Append(Without(accessOrder, k), k)]_vars

\* Key 1 was set twice and key 2 once, nothing was evicted, and a get hit
\* on key 1 has left accessOrder with key 1 once, behind key 2.
C21_Witness ==
    /\ cacheHist.last = "hit"
    /\ ~cacheHist.distinct
    /\ cacheHist.evicted = 0
    /\ accessOrder = <<2, 1>>
    /\ cache[1] = "v2" /\ cache[2] = "v1"

\* C22: for every u, v in [0, 1], the ends included, uvToTilePixel returns
\* tileX in [0, tilesX), tileY in [0, tilesY), pixelX in [0, tileWidth) and
\* pixelY in [0, tileHeight).
C22_TilePixelInRange ==
    Returned("pixel")
        => /\ fnOut.tileX \in 0..(TilesX - 1)
           /\ fnOut.tileY \in 0..(TilesY - 1)
           /\ fnOut.pixelX \in 0..(TileWidth - 1)
           /\ fnOut.pixelY \in 0..(TileHeight - 1)

\* C23: cartesianToLatLong(latLongToCartesian(lat, long, r), r) =
\* (lat, long) for valid coordinates.
C23_GlobeRoundTrip ==
    Returned("globe") => fnOut.back = [lat |-> fnIn.lat, long |-> fnIn.long]

(***************************************************************************)
(* Properties of the Supabase-backed stamp route, checked under            *)
(* SpecStampDb.                                                            *)
(***************************************************************************)
\* C24: a request rejected because its image is not a PNG data URL or is
\* larger than 5 MB leaves the user's rate-limit entry as it was.
C24_RejectedNotCounted ==
    [][\A u \in Users, image \in {"jpeg", "big"}, stored \in BOOLEAN :
          (SupabasePost(u, image, stored) /\ dbResp'.status = 400)
              => stampRateLimit'[u] = stampRateLimit[u]]_vars

(***************************************************************************)
(* Properties of the in-memory store and GET, checked under SpecStore.     *)
(***************************************************************************)
\* C25: after any sequence of successful stamps the store holds at most 100
\* records, and they are the most recently committed ones in the order they
\* were committed; GET returns at most 50 records, the most recent ones at
\* the time of the call, newest first, with strictly decreasing
\* textureVersion.
C25_StoreAndFeed ==
    /\ Len(stamps) <= MaxStoredStamps
    /\ \A i \in 1..Len(stamps) :
          /\ stamps[i].textureVersion = textureVersion - Len(stamps) + i
          /\ stamps[i].id = nextId - 1 - Len(stamps) + i
    /\ Len(lastGet.stamps) <= FeedSize
    /\ \A i \in 1..Len(lastGet.stamps) :
          lastGet.stamps[i].textureVersion
              = lastGet.currentTextureVersion + 1 - i
    /\ \A i \in 1..(Len(lastGet.stamps) - 1) :
          lastGet.stamps[i].textureVersion > lastGet.stamps[i + 1].textureVersion

\* The store is full and has evicted its oldest records, and GET has returned
\* the 50 newest of them.
C25_Witness ==
    /\ Len(stamps) = MaxStoredStamps
    /\ stamps[1].id > 1
    /\ Len(lastGet.stamps) = FeedSize
    /\ lastGet.currentTextureVersion = textureVersion
    /\ lastGet.stamps[FeedSize].id = nextId - FeedSize

\* C26: for every centre latitude in [-90, 90], the poles included, and every
\* zoom from 1 to 10, the divisor calculateDrawingBounds uses is kept away
\* from zero, so the longitude span is of ordinary size (at most 30 degrees
\* over the clamped divisor) and the loops of normalizeAngle finish.
C26_PoleSpanBounded ==
    Returned("span")
        => /\ fnOut.divisor.sgn = 1 /\ fnOut.divisor.eps = 0
           /\ fnOut.longSpan.eps = 0

(***************************************************************************)
(* Properties of the RealtimeManager, checked under SpecRt.                *)
(***************************************************************************)
\* C27: reconnectAttempts never exceeds maxReconnectAttempts and only an open
\* event lowers it (to 0); as long as no socket has ever opened, at most
\* maxReconnectAttempts reconnects have been scheduled; a close event that
\* finds the limit reached sets connectionFailed, which only an open event
\* clears; and while connectionFailed is set connect() creates no socket and
\* emits a disconnect event.
C27_ReconnectLimit ==
    [][/\ reconnectAttempts' <= maxReconnectAttempts
       /\ ~rtHist'.everOpened => rtHist'.scheduled <= maxReconnectAttempts
       /\ reconnectAttempts' < reconnectAttempts
             => reconnectAttempts' = 0 /\ rtHist'.last = "open"
       /\ (reconnectAttempts = maxReconnectAttempts /\ rtHist'.last = "close")
             => connectionFailed'
       /\ (connectionFailed /\ ~connectionFailed') => rtHist'.last = "open"
       /\ (connectionFailed /\ rtHist'.last \in {"connect", "timer"})
             => /\ sockets' = sockets
                /\ rtHist'.emitted = "disconnect"]_vars

\* Four sockets closed without one opening, three reconnects were scheduled,
\* connectionFailed is set, and a later connect() by the caller has created
\* no fifth socket and emitted a disconnect event.
C27_Witness ==
    /\ ~rtHist.everOpened
    /\ rtHist.scheduled = maxReconnectAttempts
    /\ reconnectAttempts = maxReconnectAttempts
    /\ connectionFailed
    /\ sockets = <<"closed", "closed", "closed", "closed">>
    /\ timers = 0
    /\ rtHist.last = "connect"
    /\ rtHist.emitted = "disconnect"

\* C28: after disconnect() on an open connection, the close event of the
\* socket that disconnect() closed schedules no reconnect, and no WebSocket
\* is created until the caller invokes connect() again.
C28_StaysDisconnected ==
    [][/\ \A i \in 1..Len(sockets) :
             (sockets[i] = "closing" /\ RtSocketCloses(i)) => timers' = timers
       /\ (rtHist.disconnected /\ Len(sockets') > Len(sockets))
             => rtHist'.last = "connect"]_vars

(***************************************************************************)
(* Properties of GET /api/enhance, checked under SpecQuota.                *)
(***************************************************************************)
\* The further POSTs checkRateLimit would allow at time t, one after another,
\* from the map entry limit (at most k of them are tried).
RECURSIVE FurtherAllowed(_, _, _)
FurtherAllowed(limit, t, k) ==
    IF k = 0 THEN 0
    ELSE LET res == checkRateLimit(limit, t, DayTicks, maxEnhancementsPerDay)
         IN  IF res.allowed THEN 1 + FurtherAllowed(res.entry, t, k - 1) ELSE 0

\* C30: at every instant, now = resetTime included, the remaining quota GET
\* /api/enhance reports for a user is the number of further POSTs that
\* checkRateLimit would allow that user at the same instant.
C30_QuotaMatchesLimiter ==
    [][\A u \in Users :
          EnhanceGet(u)
              => eQuota'.remaining
                    = FurtherAllowed(enhanceRateLimit[u], now,
                                     maxEnhancementsPerDay + 1)]_vars

(***************************************************************************)
(* Properties of the stamp lock, checked under SpecLock.                   *)
(***************************************************************************)
\* C29: isProcessing is true exactly while a request is inside the locked
\* section, so it is false whenever none is, also after a request left the
\* section by an exception; and every validated request that waits for the
\* lock eventually gets it.
C29_LockReleased ==
    /\ [](isProcessing <=> \E r \in Reqs : pc[r] \in InSection)
    /\ \A r \in Reqs : (pc[r] = "sleep") ~> (pc[r] \in InSection)

\* A request has left the section by an exception (500) with the lock given
\* back, and the other request, which arrived meanwhile, has then taken it.
C29_Witness ==
    /\ pc[1] = "done" /\ resp[1] = ServerError
    /\ effect[1].version = 1
    /\ pc[2] = "locked"
    /\ local[2].entryVersion = InitialVersion + 1
    /\ isProcessing

====
